---- MODULE Spec2Model ----
(***************************************************************************)
(* A model of python/ray/dag/context.py: the DAGContext dataclass, the     *)
(* module constants DEFAULT_* resolved from os.environ when the module is  *)
(* imported, the process-wide reference _default_context, the lock         *)
(* _context_lock and the accessor DAGContext.get_current().                *)
(*                                                                         *)
(* Strings of the environment are sequences of one-character strings, so   *)
(* that int() and bool() are computed on them as Python computes them.     *)
(* DAGContext instances live in a heap; a reference is an index into it    *)
(* and None is the index 0.                                                *)
(***************************************************************************)
EXTENDS Integers, Sequences, FiniteSets, TLC

(***************************************************************************)
(* Bounds of the model.                                                    *)
(***************************************************************************)
NumThreads == 2
MaxEnvOps == 2
MaxCallerOps == 2

Threads == 1..NumThreads

(***************************************************************************)
(* The dataclass fields (context.py lines 83-90).                          *)
(***************************************************************************)
IntFields ==
  {"submit_timeout", "get_timeout", "teardown_timeout", "buffer_size_bytes",
   "asyncio_max_queue_size", "max_buffered_results", "max_inflight_executions"}

BoolFields == {"overlap_gpu_communication"}

Fields == IntFields \cup BoolFields

(***************************************************************************)
(* Python values met at import: a str, an int or a float m * 10^e (the     *)
(* literal 1e6).                                                           *)
(***************************************************************************)
StrV(s) == [tag |-> "str", s |-> s, m |-> 0, e |-> 0]

IntV(n) == [tag |-> "int", s |-> <<>>, m |-> n, e |-> 0]

FloatV(m, e) == [tag |-> "float", s |-> <<>>, m |-> m, e |-> e]

(***************************************************************************)
(* The second argument of each os.environ.get call (lines 11-33).          *)
(***************************************************************************)
\* The same with a slip in two of the literals.
DefaultArgSlip(f) ==
  CASE f = "submit_timeout" -> IntV(10)
    [] f = "get_timeout" -> IntV(10)
    [] f = "teardown_timeout" -> IntV(10)
    [] f = "buffer_size_bytes" -> FloatV(1, 6)
    [] f = "asyncio_max_queue_size" -> IntV(0)
    [] f = "max_buffered_results" -> IntV(1000)
    [] f = "max_inflight_executions" -> IntV(10)
    [] f = "overlap_gpu_communication" -> IntV(0)

\* The same with 1e-6 written for 1e6: int(1e-6) is 0.
DefaultArgTypo(f) ==
  CASE f = "submit_timeout" -> IntV(10)
    [] f = "get_timeout" -> IntV(10)
    [] f = "teardown_timeout" -> IntV(30)
    [] f = "buffer_size_bytes" -> IntV(0)
    [] f = "asyncio_max_queue_size" -> IntV(0)
    [] f = "max_buffered_results" -> IntV(1000)
    [] f = "max_inflight_executions" -> IntV(10)
    [] f = "overlap_gpu_communication" -> IntV(0)

DefaultArg(f) ==
  CASE f = "submit_timeout" -> IntV(10)
    [] f = "get_timeout" -> IntV(10)
    [] f = "teardown_timeout" -> IntV(30)
    [] f = "buffer_size_bytes" -> FloatV(1, 6)
    [] f = "asyncio_max_queue_size" -> IntV(0)
    [] f = "max_buffered_results" -> IntV(1000)
    [] f = "max_inflight_executions" -> IntV(10)
    [] f = "overlap_gpu_communication" -> IntV(0)

(***************************************************************************)
(* The first argument of each os.environ.get call: "RAY_CGRAPH_" + field.  *)
(***************************************************************************)
EnvName(f) ==
  CASE f = "submit_timeout" -> "RAY_CGRAPH_submit_timeout"
    [] f = "get_timeout" -> "RAY_CGRAPH_get_timeout"
    [] f = "teardown_timeout" -> "RAY_CGRAPH_teardown_timeout"
    [] f = "buffer_size_bytes" -> "RAY_CGRAPH_buffer_size_bytes"
    [] f = "asyncio_max_queue_size" -> "RAY_CGRAPH_asyncio_max_queue_size"
    [] f = "max_buffered_results" -> "RAY_CGRAPH_max_buffered_results"
    [] f = "max_inflight_executions" -> "RAY_CGRAPH_max_inflight_executions"
    [] f = "overlap_gpu_communication" -> "RAY_CGRAPH_overlap_gpu_communication"

EnvNames == {EnvName(f) : f \in Fields}

(***************************************************************************)
(* int(str): surrounding whitespace is stripped, one sign is allowed, the  *)
(* rest is decimal digits with single underscores between digits.          *)
(***************************************************************************)
Whitespace == {" ", "\t", "\n"}

Digits == {"0", "1", "2", "3", "4", "5", "6", "7", "8", "9"}

DigitVal(c) ==
  CASE c = "0" -> 0 [] c = "1" -> 1 [] c = "2" -> 2 [] c = "3" -> 3
    [] c = "4" -> 4 [] c = "5" -> 5 [] c = "6" -> 6 [] c = "7" -> 7
    [] c = "8" -> 8 [] c = "9" -> 9

RECURSIVE LStrip(_)
LStrip(s) ==
  IF s # <<>> /\ Head(s) \in Whitespace THEN LStrip(Tail(s)) ELSE s

RECURSIVE RStrip(_)
RStrip(s) ==
  IF s # <<>> /\ s[Len(s)] \in Whitespace
  THEN RStrip(SubSeq(s, 1, Len(s) - 1))
  ELSE s

Strip(s) == RStrip(LStrip(s))

\* The digits of an unsigned literal: non-empty, digits and underscores only,
\* every underscore between two digits.
IsDigitString(s) ==
  /\ s # <<>>
  /\ \A i \in 1..Len(s) :
       \/ s[i] \in Digits
       \/ /\ s[i] = "_"
          /\ i > 1 /\ i < Len(s)
          /\ s[i - 1] \in Digits /\ s[i + 1] \in Digits

RECURSIVE DigitsValue(_, _)
DigitsValue(s, acc) ==
  IF s = <<>> THEN acc
  ELSE IF Head(s) = "_" THEN DigitsValue(Tail(s), acc)
  ELSE DigitsValue(Tail(s), 10 * acc + DigitVal(Head(s)))

\* A parser that falls back to 0 instead of raising.
ParseIntLenient(str) ==
  LET s == Strip(str)
      signed == s # <<>> /\ Head(s) \in {"+", "-"}
      body == IF signed THEN Tail(s) ELSE s
      mag == DigitsValue(body, 0)
  IN IF IsDigitString(body)
     THEN [ok |-> TRUE, v |-> IF signed /\ Head(s) = "-" THEN 0 - mag ELSE mag]
     ELSE [ok |-> TRUE, v |-> 0]

\* [ok |-> FALSE] stands for ValueError: invalid literal for int().
ParseInt(str) ==
  LET s == Strip(str)
      signed == s # <<>> /\ Head(s) \in {"+", "-"}
      body == IF signed THEN Tail(s) ELSE s
      mag == DigitsValue(body, 0)
  IN IF IsDigitString(body)
     THEN [ok |-> TRUE, v |-> IF signed /\ Head(s) = "-" THEN 0 - mag ELSE mag]
     ELSE [ok |-> FALSE, v |-> 0]

RECURSIVE Pow10(_)
Pow10(e) == IF e = 0 THEN 1 ELSE 10 * Pow10(e - 1)

\* int(x) for the values os.environ.get can return here.
PyInt(x) ==
  CASE x.tag = "str" -> ParseInt(x.s)
    [] x.tag = "int" -> [ok |-> TRUE, v |-> x.m]
    [] x.tag = "float" -> [ok |-> TRUE, v |-> x.m * Pow10(x.e)]

\* bool(x): a str is true iff it is not empty, a number iff it is not zero.
PyBool(x) ==
  CASE x.tag = "str" -> Len(x.s) > 0
    [] x.tag = "int" -> x.m # 0
    [] x.tag = "float" -> x.m # 0

(***************************************************************************)
(* The state.                                                              *)
(***************************************************************************)
VARIABLES
  environ,            \* os.environ restricted to the RAY_CGRAPH_* names
  modState,           \* "unloaded", "loaded" or "failed": the import of context.py
  DEFAULTS,           \* the DEFAULT_* constants, i.e. the dataclass field defaults
  _default_context,   \* the singleton reference; None before the first access
  _context_lock,      \* the thread holding the lock, or Free
  heap,               \* the DAGContext instances constructed so far
  pc,                 \* per thread: its position in get_current()
  ref,                \* per thread: the instance reference it holds
  raised,             \* the last exception raised, by the import or a constructor
  loadEnv,            \* history: os.environ as it was at the last import
  returned,           \* history: the references returned by get_current() calls
  constructions,      \* history: constructor runs made by get_current()
  assigned,           \* history: per instance and field, the last value assigned
  envOps,             \* number of changes made to the environment
  callerOps           \* number of field assignments and direct constructions made

vars ==
  <<environ, modState, DEFAULTS, _default_context, _context_lock, heap, pc, ref,
    raised, loadEnv, returned, constructions, assigned, envOps, callerOps>>

None == 0

Free == 0

Unset == [set |-> FALSE, s |-> <<>>]

SetTo(s) == [set |-> TRUE, s |-> s]

\* The strings an operator may put in a RAY_CGRAPH_* variable.
EnvValues ==
  { <<"1">>, <<"-", "5">>, <<"0">>, <<" ", "4", "2">>, <<>>,
    <<"t", "r", "u", "e">>, <<"f", "a", "l", "s", "e">>,
    <<"n", "o", "t", "_", "a", "_", "n", "u", "m", "b", "e", "r">> }

\* os.environ.get(name, default)
EnvGet(env, name, default) ==
  IF env[name].set THEN StrV(env[name].s) ELSE default

\* A resolution in which the compiled-in default wins over the environment.
ResolveDefaultFirst(env, f) ==
  IF f \in IntFields
  THEN PyInt(DefaultArg(f))
  ELSE [ok |-> TRUE, v |-> PyBool(DefaultArg(f))]

\* The right-hand side of one DEFAULT_* assignment (lines 11-33) under env.
Resolve(env, f) ==
  IF f \in IntFields
  THEN PyInt(EnvGet(env, EnvName(f), DefaultArg(f)))
  ELSE [ok |-> TRUE, v |-> PyBool(EnvGet(env, EnvName(f), DefaultArg(f)))]

Unloaded == [f \in Fields |-> IF f \in IntFields THEN 0 ELSE FALSE]

Init ==
  /\ environ = [n \in EnvNames |-> Unset]
  /\ modState = "unloaded"
  /\ DEFAULTS = Unloaded
  /\ _default_context = None
  /\ _context_lock = Free
  /\ heap = <<>>
  /\ pc = [t \in Threads |-> "idle"]
  /\ ref = [t \in Threads |-> None]
  /\ raised = "none"
  /\ loadEnv = [n \in EnvNames |-> Unset]
  /\ returned = {}
  /\ constructions = 0
  /\ assigned = <<>>
  /\ envOps = 0
  /\ callerOps = 0

(***************************************************************************)
(* The environment: os.environ[name] = s and del os.environ[name].          *)
(***************************************************************************)
SetEnv(name, s) ==
  /\ envOps < MaxEnvOps
  /\ environ[name] # SetTo(s)
  /\ environ' = [environ EXCEPT ![name] = SetTo(s)]
  /\ envOps' = envOps + 1
  /\ UNCHANGED <<modState, DEFAULTS, _default_context, _context_lock, heap, pc,
                 ref, raised, loadEnv, returned, constructions, assigned, callerOps>>

UnsetEnv(name) ==
  /\ envOps < MaxEnvOps
  /\ environ[name].set
  /\ environ' = [environ EXCEPT ![name] = Unset]
  /\ envOps' = envOps + 1
  /\ UNCHANGED <<modState, DEFAULTS, _default_context, _context_lock, heap, pc,
                 ref, raised, loadEnv, returned, constructions, assigned, callerOps>>

(***************************************************************************)
(* import ray.dag.context: lines 8-33 run once, top to bottom. The first   *)
(* int() that raises ends the import with ValueError and the module is not *)
(* loaded; a later import runs the module body again.                      *)
(***************************************************************************)
\* An import that also creates the singleton (an eager module-level instance).
ImportModuleEager ==
  /\ modState \in {"unloaded", "failed"}
  /\ IF \A f \in Fields : Resolve(environ, f).ok
     THEN /\ modState' = "loaded"
          /\ DEFAULTS' = [f \in Fields |-> Resolve(environ, f).v]
          /\ raised' = "none"
          /\ heap' = Append(heap, [f \in Fields |-> Resolve(environ, f).v])
          /\ assigned' = Append(assigned, [f \in Fields |-> {}])
          /\ _default_context' = Len(heap) + 1
     ELSE /\ modState' = "failed"
          /\ raised' = "ValueError"
          /\ _default_context' = None
          /\ UNCHANGED <<DEFAULTS, heap, assigned>>
  /\ loadEnv' = environ
  /\ _context_lock' = Free
  /\ UNCHANGED <<environ, pc, ref, returned, constructions, envOps, callerOps>>

ImportModule ==
  /\ modState \in {"unloaded", "failed"}
  /\ IF \A f \in Fields : Resolve(environ, f).ok
     THEN /\ modState' = "loaded"
          /\ DEFAULTS' = [f \in Fields |-> Resolve(environ, f).v]
          /\ raised' = "none"
     ELSE /\ modState' = "failed"
          /\ raised' = "ValueError"
          /\ UNCHANGED DEFAULTS
  /\ loadEnv' = environ
  /\ _default_context' = None
  /\ _context_lock' = Free
  /\ UNCHANGED <<environ, heap, pc, ref, returned, constructions, assigned,
                 envOps, callerOps>>

(***************************************************************************)
(* The dataclass: DAGContext() gives every field its class default, a read *)
(* of a field returns the instance attribute, an assignment stores the     *)
(* value as given (the dataclass is not frozen and defines no setter).     *)
(***************************************************************************)
\* Defaults that follow the singleton: what an assignment made on the class
\* instead of the instance would give every later DAGContext().
NewInstanceFromSingleton ==
  IF _default_context # None
  THEN heap[_default_context]
  ELSE [f \in Fields |-> DEFAULTS[f]]

NewInstance == [f \in Fields |-> DEFAULTS[f]]

\* A read that looks the override up again on every access.
ReadFieldFromEnv(i, f) ==
  IF environ[EnvName(f)].set THEN Resolve(environ, f).v ELSE heap[i][f]

ReadField(i, f) == heap[i][f]

\* An assignment that validates: a negative number is not stored.
SetAttrValidated(obj, f, v) ==
  IF f \in IntFields /\ v < 0 THEN obj ELSE [obj EXCEPT ![f] = v]

SetAttr(obj, f, v) == [obj EXCEPT ![f] = v]

NotAssigned == [f \in Fields |-> {}]

\* The values callers assign to a field.
MutValues(f) == IF f \in IntFields THEN {0 - 1, 500} ELSE {TRUE, FALSE}

(***************************************************************************)
(* DAGContext.get_current(), lines 99-105, one action per step.            *)
(*   L101  with _context_lock:           (waiting for the lock)            *)
(*   L102  if _default_context is None:                                    *)
(*   L103      _default_context = DAGContext()                             *)
(*   L105  return _default_context       (and the lock is released)        *)
(***************************************************************************)
Call(t) ==
  /\ modState = "loaded"
  /\ pc[t] = "idle"
  /\ pc' = [pc EXCEPT ![t] = "L101"]
  /\ UNCHANGED <<environ, modState, DEFAULTS, _default_context, _context_lock,
                 heap, ref, raised, loadEnv, returned, constructions, assigned,
                 envOps, callerOps>>

\* A lock that excludes nobody.
CanAcquireUnguarded(t) == TRUE

\* threading.Lock.acquire() returns only when no thread holds the lock.
CanAcquire(t) == _context_lock = Free

Acquire(t) ==
  /\ pc[t] = "L101"
  /\ CanAcquire(t)
  /\ _context_lock' = t
  /\ pc' = [pc EXCEPT ![t] = "L102"]
  /\ UNCHANGED <<environ, modState, DEFAULTS, _default_context, heap, ref,
                 raised, loadEnv, returned, constructions, assigned, envOps,
                 callerOps>>

\* get_current() without the test of line 102: every call constructs.
NeedsInitAlways == TRUE

\* The test of line 102 inverted: "is not None".
NeedsInitInverted == _default_context # None

\* The test of line 102.
NeedsInit == _default_context = None

Check(t) ==
  /\ pc[t] = "L102"
  /\ pc' = [pc EXCEPT ![t] = IF NeedsInit THEN "L103" ELSE "L105"]
  /\ UNCHANGED <<environ, modState, DEFAULTS, _default_context, _context_lock,
                 heap, ref, raised, loadEnv, returned, constructions, assigned,
                 envOps, callerOps>>

Construct(t) ==
  /\ pc[t] = "L103"
  /\ heap' = Append(heap, NewInstance)
  /\ assigned' = Append(assigned, NotAssigned)
  /\ _default_context' = Len(heap) + 1
  /\ constructions' = constructions + 1
  /\ pc' = [pc EXCEPT ![t] = "L105"]
  /\ UNCHANGED <<environ, modState, DEFAULTS, _context_lock, ref, raised,
                 loadEnv, returned, envOps, callerOps>>

\* The same leaving the lock held: acquire() with no with or try/finally.
ConstructRaisesHoldingLock(t) ==
  /\ pc[t] = "L103"
  /\ raised' = "MemoryError"
  /\ pc' = [pc EXCEPT ![t] = "idle"]
  /\ UNCHANGED <<environ, modState, DEFAULTS, _default_context, _context_lock,
                 heap, ref, loadEnv, returned, constructions, assigned, envOps,
                 callerOps>>

\* DAGContext() on line 103 raises (it allocates: MemoryError). Nothing is
\* bound, the with statement releases the lock and the call ends with the
\* exception.
ConstructRaises(t) ==
  /\ pc[t] = "L103"
  /\ raised' = "MemoryError"
  /\ _context_lock' = Free
  /\ pc' = [pc EXCEPT ![t] = "idle"]
  /\ UNCHANGED <<environ, modState, DEFAULTS, _default_context, heap, ref,
                 loadEnv, returned, constructions, assigned, envOps, callerOps>>

\* A return that leaves the lock held.
ReturnWithoutRelease(t) ==
  /\ pc[t] = "L105"
  /\ ref' = [ref EXCEPT ![t] = _default_context]
  /\ returned' = returned \cup {_default_context}
  /\ pc' = [pc EXCEPT ![t] = "idle"]
  /\ UNCHANGED <<environ, modState, DEFAULTS, _default_context, _context_lock,
                 heap, raised, loadEnv, constructions, assigned, envOps,
                 callerOps>>

Return(t) ==
  /\ pc[t] = "L105"
  /\ ref' = [ref EXCEPT ![t] = _default_context]
  /\ returned' = returned \cup {_default_context}
  /\ _context_lock' = Free
  /\ pc' = [pc EXCEPT ![t] = "idle"]
  /\ UNCHANGED <<environ, modState, DEFAULTS, _default_context, heap, raised,
                 loadEnv, constructions, assigned, envOps, callerOps>>

(***************************************************************************)
(* What callers do with the class besides get_current(): assign a field of *)
(* the instance they hold, and construct a DAGContext of their own.        *)
(***************************************************************************)
SetField(t, f, v) ==
  /\ pc[t] = "idle"
  /\ ref[t] # None
  /\ callerOps < MaxCallerOps
  /\ heap' = [heap EXCEPT ![ref[t]] = SetAttr(@, f, v)]
  /\ assigned' = [assigned EXCEPT ![ref[t]][f] = {v}]
  /\ callerOps' = callerOps + 1
  /\ UNCHANGED <<environ, modState, DEFAULTS, _default_context, _context_lock,
                 pc, ref, raised, loadEnv, returned, constructions, envOps>>

\* A constructor that installs each new instance as the singleton.
DirectConstructInstalls(t) ==
  /\ modState = "loaded"
  /\ pc[t] = "idle"
  /\ callerOps < MaxCallerOps
  /\ heap' = Append(heap, NewInstance)
  /\ assigned' = Append(assigned, NotAssigned)
  /\ ref' = [ref EXCEPT ![t] = Len(heap) + 1]
  /\ _default_context' = Len(heap) + 1
  /\ callerOps' = callerOps + 1
  /\ UNCHANGED <<environ, modState, DEFAULTS, _context_lock, pc, raised,
                 loadEnv, returned, constructions, envOps>>

DirectConstruct(t) ==
  /\ modState = "loaded"
  /\ pc[t] = "idle"
  /\ callerOps < MaxCallerOps
  /\ heap' = Append(heap, NewInstance)
  /\ assigned' = Append(assigned, NotAssigned)
  /\ ref' = [ref EXCEPT ![t] = Len(heap) + 1]
  /\ callerOps' = callerOps + 1
  /\ UNCHANGED <<environ, modState, DEFAULTS, _default_context, _context_lock,
                 pc, raised, loadEnv, returned, constructions, envOps>>

(***************************************************************************)
(* Spec: the module is imported under an environment without overrides and *)
(* any number of threads use the class.                                    *)
(* SpecEnv: the operator changes the environment before and after the      *)
(* import, and one thread calls get_current().                             *)
(***************************************************************************)
Next ==
  \/ ImportModule
  \/ \E t \in Threads : Call(t)
  \/ \E t \in Threads : Acquire(t)
  \/ \E t \in Threads : Check(t)
  \/ \E t \in Threads : Construct(t)
  \/ \E t \in Threads : Return(t)
  \/ \E t \in Threads, f \in Fields : \E v \in MutValues(f) : SetField(t, f, v)
  \/ \E t \in Threads : DirectConstruct(t)

Spec == Init /\ [][Next]_vars

(***************************************************************************)
(* SpecFair: the threads call get_current() and construct instances of     *)
(* their own, under fair scheduling. A thread inside get_current() that    *)
(* can take a step eventually takes it, and a thread waiting for the lock  *)
(* that finds it free again and again eventually takes it.                 *)
(***************************************************************************)
NextCalls ==
  \/ ImportModule
  \/ \E t \in Threads : Call(t)
  \/ \E t \in Threads : Acquire(t)
  \/ \E t \in Threads : Check(t)
  \/ \E t \in Threads : Construct(t)
  \/ \E t \in Threads : Return(t)
  \/ \E t \in Threads : DirectConstruct(t)

Fairness ==
  \A t \in Threads :
    /\ SF_vars(Acquire(t))
    /\ WF_vars(Check(t))
    /\ WF_vars(Construct(t))
    /\ WF_vars(Return(t))

SpecFair == Init /\ [][NextCalls]_vars /\ Fairness

(***************************************************************************)
(* SpecFault: as the threads of SpecFair, without fairness, and the         *)
(* constructor call of line 103 may raise.                                 *)
(***************************************************************************)
NextFault ==
  \/ NextCalls
  \/ \E t \in Threads : ConstructRaises(t)

SpecFault == Init /\ [][NextFault]_vars

NextEnv ==
  \/ \E n \in EnvNames, s \in EnvValues : SetEnv(n, s)
  \/ \E n \in EnvNames : UnsetEnv(n)
  \/ ImportModule
  \/ Call(1)
  \/ Acquire(1)
  \/ Check(1)
  \/ Construct(1)
  \/ Return(1)

SpecEnv == Init /\ [][NextEnv]_vars

(***************************************************************************)
(* C1: for any number of threads that call get_current() concurrently      *)
(* while the singleton is uninitialised, under every interleaving, the     *)
(* constructor is run by get_current() exactly once and every call returns *)
(* that one instance.                                                      *)
(***************************************************************************)
C1_ConstructedOnce ==
  /\ constructions <= 1
  /\ returned \subseteq {_default_context}
  /\ returned # {} => constructions = 1

\* One thread has run the constructor and still holds the lock while another
\* thread, which holds no instance yet, waits in its own first call.
C1_Witness ==
  \E t, u \in Threads :
    /\ t # u
    /\ pc[t] = "L105" /\ _context_lock = t
    /\ pc[u] = "L101" /\ ref[u] = None
    /\ constructions = 1
    /\ returned = {}

(***************************************************************************)
(* C2: any two calls of get_current() return the same instance, so a value *)
(* assigned to a field through the result of one call is the value read    *)
(* for that field through the result of any other call.                    *)
(***************************************************************************)
C2_SameInstance ==
  /\ Cardinality(returned) <= 1
  /\ \A i \in returned, t \in Threads, f \in Fields :
       (ref[t] \in returned /\ assigned[i][f] # {})
         => assigned[i][f] = {ReadField(ref[t], f)}

\* Two threads hold the result of get_current(); buffer_size_bytes was
\* assigned 500 through it and reads 500 through both.
C2_Witness ==
  \E t, u \in Threads :
    /\ t # u
    /\ ref[t] \in returned /\ ref[u] \in returned
    /\ assigned[ref[t]]["buffer_size_bytes"] = {500}
    /\ ReadField(ref[u], "buffer_size_bytes") = 500

(***************************************************************************)
(* What the override strings of the model denote, written out: the         *)
(* integer literals among them with their values, and the strings an       *)
(* operator means as true and as false.                                    *)
(***************************************************************************)
IntLiterals == { <<"1">>, <<"-", "5">>, <<"0">>, <<" ", "4", "2">> }

DenotedInt(s) ==
  CASE s = <<"1">> -> 1
    [] s = <<"-", "5">> -> 0 - 5
    [] s = <<"0">> -> 0
    [] s = <<" ", "4", "2">> -> 42

TruthyStrings == { <<"1">>, <<"t", "r", "u", "e">> }

FalsyStrings == { <<"0">>, <<"f", "a", "l", "s", "e">> }

PositiveFields == IntFields \ {"asyncio_max_queue_size"}

\* Some integer field has an override in env that is no integer literal.
BadIntOverride(env) ==
  \E f \in IntFields :
    env[EnvName(f)].set /\ env[EnvName(f)].s \notin IntLiterals

(***************************************************************************)
(* C3, as stated: the singleton is resolved from the environment as it is  *)
(* when get_current() creates it, so every valid override present at that  *)
(* moment is the value of its field.                                       *)
(***************************************************************************)
C3_ResolvedAtCreation ==
  [][(_default_context = None /\ _default_context' # None)
       => \A f \in IntFields :
            (environ[EnvName(f)].set /\ environ[EnvName(f)].s \in IntLiterals)
              => heap'[_default_context'][f] = DenotedInt(environ[EnvName(f)].s)]_vars

(***************************************************************************)
(* C3, amended: the environment is resolved when the module is imported.   *)
(* Every override present at the import is the value of its field in the   *)
(* singleton: the integer it denotes for an integer field, true for a      *)
(* truthy string of overlap_gpu_communication.                             *)
(***************************************************************************)
C3_ResolvedAtImport ==
  _default_context # None =>
    /\ \A f \in IntFields :
         loadEnv[EnvName(f)].set
           => /\ loadEnv[EnvName(f)].s \in IntLiterals
              /\ ReadField(_default_context, f) = DenotedInt(loadEnv[EnvName(f)].s)
    /\ \A f \in BoolFields :
         (loadEnv[EnvName(f)].set /\ loadEnv[EnvName(f)].s \in TruthyStrings)
           => ReadField(_default_context, f) = TRUE

\* The singleton carries get_timeout = 42 from the override " 42" present at
\* the import, although the environment no longer holds that override.
C3_Witness ==
  /\ _default_context # None
  /\ returned # {}
  /\ loadEnv["RAY_CGRAPH_get_timeout"] = SetTo(<<" ", "4", "2">>)
  /\ environ["RAY_CGRAPH_get_timeout"] # SetTo(<<" ", "4", "2">>)
  /\ ReadField(_default_context, "get_timeout") = 42

(***************************************************************************)
(* C4, as stated: an unparsable integer override surfaces as a             *)
(* ConfigurationError raised by a get_current() call of the loaded module. *)
(***************************************************************************)
C4_ConfigurationError ==
  raised # "none" =>
    /\ raised = "ConfigurationError"
    /\ modState = "loaded"
    /\ \E t \in Threads : pc[t] # "idle"

(***************************************************************************)
(* C4, amended: an integer override that is no integer literal when the    *)
(* module is imported makes the import fail with ValueError, and only      *)
(* that does; the field is not defaulted, get_current() cannot be called   *)
(* and no singleton is stored.                                             *)
(***************************************************************************)
C4_ImportFails ==
  /\ modState = "failed" <=> (modState # "unloaded" /\ BadIntOverride(loadEnv))
  /\ modState = "failed" =>
       /\ raised = "ValueError"
       /\ _default_context = None
       /\ heap = <<>>
       /\ returned = {}
       /\ \A t \in Threads : pc[t] = "idle"

\* The import failed on RAY_CGRAPH_submit_timeout = "not_a_number".
C4_Witness ==
  /\ modState = "failed"
  /\ raised = "ValueError"
  /\ loadEnv["RAY_CGRAPH_submit_timeout"]
       = SetTo(<<"n", "o", "t", "_", "a", "_", "n", "u", "m", "b", "e", "r">>)

(***************************************************************************)
(* C5: with no override in the environment the module is imported under,   *)
(* the singleton has submit_timeout 10, get_timeout 10, teardown_timeout   *)
(* 30, buffer_size_bytes 1000000, asyncio_max_queue_size 0,                *)
(* max_buffered_results 1000, max_inflight_executions 10 and               *)
(* overlap_gpu_communication false.                                        *)
(***************************************************************************)
C5_CompiledDefaults ==
  (_default_context # None /\ \A n \in EnvNames : ~loadEnv[n].set) =>
    /\ ReadField(_default_context, "submit_timeout") = 10
    /\ ReadField(_default_context, "get_timeout") = 10
    /\ ReadField(_default_context, "teardown_timeout") = 30
    /\ ReadField(_default_context, "buffer_size_bytes") = 1000000
    /\ ReadField(_default_context, "asyncio_max_queue_size") = 0
    /\ ReadField(_default_context, "max_buffered_results") = 1000
    /\ ReadField(_default_context, "max_inflight_executions") = 10
    /\ ReadField(_default_context, "overlap_gpu_communication") = FALSE

\* The first get_current() has returned the singleton of a module imported
\* without overrides.
C5_Witness ==
  /\ _default_context # None
  /\ returned = {_default_context}
  /\ \A n \in EnvNames : ~loadEnv[n].set
  /\ ReadField(_default_context, "buffer_size_bytes") = 1000000

(***************************************************************************)
(* C6: once _default_context is set, no get_current() call and no field    *)
(* assignment sets it back to None or to another instance.                 *)
(***************************************************************************)
C6_OneWay ==
  [][_default_context # None => _default_context' = _default_context]_vars

\* The singleton exists, a field was assigned, and a later call of
\* get_current() is past its test.
C6_Witness ==
  /\ _default_context # None
  /\ returned # {}
  /\ \E f \in Fields : assigned[_default_context][f] # {}
  /\ \E t \in Threads : pc[t] = "L105"

(***************************************************************************)
(* C7: once the singleton exists, no change of the environment and no      *)
(* later get_current() call changes the singleton reference, a field of    *)
(* the singleton or what get_current() returns.                            *)
(***************************************************************************)
C7_EnvironmentNotReread ==
  [][_default_context # None =>
       /\ _default_context' = _default_context
       /\ \A f \in Fields :
            ReadField(_default_context, f)' = ReadField(_default_context, f)
       /\ returned' \subseteq {_default_context}]_vars

\* The singleton exists with the default submit_timeout, the environment now
\* overrides submit_timeout, and a call of get_current() is about to return.
C7_Witness ==
  /\ _default_context # None
  /\ returned # {}
  /\ ~loadEnv["RAY_CGRAPH_submit_timeout"].set
  /\ environ["RAY_CGRAPH_submit_timeout"] = SetTo(<<"1">>)
  /\ ReadField(_default_context, "submit_timeout") = 10
  /\ pc[1] = "L105"

(***************************************************************************)
(* C8: the override of overlap_gpu_communication is read as a boolean: a   *)
(* falsy string ("0", "false") gives false, a truthy one ("1", "true")     *)
(* gives true.                                                             *)
(***************************************************************************)
C8_BooleanOverride ==
  _default_context # None =>
    \A f \in BoolFields :
      /\ (loadEnv[EnvName(f)].set /\ loadEnv[EnvName(f)].s \in FalsyStrings)
           => ReadField(_default_context, f) = FALSE
      /\ (loadEnv[EnvName(f)].set /\ loadEnv[EnvName(f)].s \in TruthyStrings)
           => ReadField(_default_context, f) = TRUE

(***************************************************************************)
(* C9, as stated: whatever overrides the import accepts, the singleton as  *)
(* constructed has six strictly positive fields and a non-negative         *)
(* asyncio_max_queue_size.                                                 *)
(***************************************************************************)
C9_PositiveFields ==
  _default_context # None =>
    /\ \A f \in PositiveFields : ReadField(_default_context, f) > 0
    /\ ReadField(_default_context, "asyncio_max_queue_size") >= 0

(***************************************************************************)
(* C9, amended: a field of the singleton as constructed is out of that     *)
(* range only if its own override is a zero or negative integer literal,   *)
(* which the import accepts and the field then holds.                      *)
(***************************************************************************)
C9_RangeUnlessOverridden ==
  _default_context # None =>
    \A f \in IntFields :
      LET x == ReadField(_default_context, f)
          low == IF f \in PositiveFields THEN 1 ELSE 0
      IN x < low =>
           /\ loadEnv[EnvName(f)].set
           /\ loadEnv[EnvName(f)].s \in IntLiterals
           /\ DenotedInt(loadEnv[EnvName(f)].s) = x

\* The singleton was constructed with submit_timeout = -5 from the override.
C9_Witness ==
  /\ _default_context # None
  /\ returned # {}
  /\ loadEnv["RAY_CGRAPH_submit_timeout"] = SetTo(<<"-", "5">>)
  /\ ReadField(_default_context, "submit_timeout") = 0 - 5

(***************************************************************************)
(* C10: an assignment to a field is never refused, whatever the value (a   *)
(* negative timeout included), and the field then reads as the value       *)
(* assigned.                                                               *)
(***************************************************************************)
C10_AssignmentUnvalidated ==
  /\ \A i \in 1..Len(heap), f \in Fields :
       assigned[i][f] # {} => assigned[i][f] = {ReadField(i, f)}
  /\ \A t \in Threads, f \in Fields :
       (pc[t] = "idle" /\ ref[t] # None /\ callerOps < MaxCallerOps)
         => \A v \in MutValues(f) : ENABLED SetField(t, f, v)

\* The singleton's submit_timeout was assigned -1 and reads -1.
C10_Witness ==
  /\ _default_context # None
  /\ assigned[_default_context]["submit_timeout"] = {0 - 1}
  /\ ReadField(_default_context, "submit_timeout") = 0 - 1

(***************************************************************************)
(* C11: a get_current() call made while the singleton exists is a pure     *)
(* read: none of its steps changes the singleton reference or a field of   *)
(* any instance, so an assigned field is never set back to its default.    *)
(***************************************************************************)
C11_PureRead ==
  [][(_default_context # None /\ pc' # pc)
       => /\ _default_context' = _default_context
          /\ heap' = heap
          /\ DEFAULTS' = DEFAULTS]_vars

\* buffer_size_bytes of the singleton was assigned 500 and a later call of
\* get_current() holds the lock, about to test the reference.
C11_Witness ==
  /\ _default_context # None
  /\ assigned[_default_context]["buffer_size_bytes"] = {500}
  /\ ReadField(_default_context, "buffer_size_bytes") = 500
  /\ \E t \in Threads : pc[t] = "L102"

(***************************************************************************)
(* A thread whose own reference is the singleton obtained it from an       *)
(* earlier get_current(): a call it makes now has started after the        *)
(* singleton was constructed. It waits when it is at line 101 and the      *)
(* lock is held.                                                           *)
(***************************************************************************)
WaitsAfterInit(t) ==
  /\ pc[t] = "L101"
  /\ ref[t] # None /\ ref[t] = _default_context
  /\ _context_lock # Free

(***************************************************************************)
(* C12, as stated: a get_current() call that starts after the singleton    *)
(* has been constructed never waits for another thread.                    *)
(***************************************************************************)
C12_NoWaitAfterInit == \A t \in Threads : ~WaitsAfterInit(t)

(***************************************************************************)
(* C12, amended: every call takes the lock, so a call that starts after    *)
(* the construction can wait too, but only for a thread that is inside     *)
(* its own get_current() call, and never for a construction.               *)
(***************************************************************************)
C12_WaitsOnlyForReaders ==
  \A t \in Threads :
    WaitsAfterInit(t) =>
      /\ _context_lock \in Threads \ {t}
      /\ pc[_context_lock] \in {"L102", "L105"}

\* A thread that already holds the singleton waits at line 101 while another
\* thread holds the lock at line 102.
C12_Witness ==
  \E t, u \in Threads :
    /\ WaitsAfterInit(t)
    /\ _context_lock = u
    /\ pc[u] = "L102"

(***************************************************************************)
(* C13: every get_current() call that completes returns a reference that   *)
(* is not None, to an instance with all eight fields set; a call about to  *)
(* return never sees None, whatever the other threads are doing.           *)
(***************************************************************************)
C13_ReturnsConstructed ==
  /\ \A i \in returned :
       /\ i # None
       /\ i \in 1..Len(heap)
       /\ DOMAIN heap[i] = Fields
  /\ \A t \in Threads :
       pc[t] = "L105" =>
         /\ _default_context \in 1..Len(heap)
         /\ DOMAIN heap[_default_context] = Fields

\* Every thread has completed a call and holds the one constructed instance.
C13_Witness ==
  /\ constructions = 1
  /\ \A t \in Threads :
       /\ pc[t] = "idle"
       /\ ref[t] \in returned
       /\ DOMAIN heap[ref[t]] = Fields

C15_Lazy ==
  [][/\ (modState # "loaded" /\ modState' = "loaded") => _default_context' = None
     /\ (_default_context = None /\ _default_context' # None)
          => \E t \in Threads :
               /\ pc[t] = "L103" /\ pc'[t] = "L105"
               /\ constructions' = constructions + 1]_vars

\* The module is loaded, an instance was constructed directly and assigned to,
\* no get_current() call has constructed anything, and the reference is None
\* while a first call is about to run line 103.
C15_Witness ==
  /\ modState = "loaded"
  /\ _default_context = None
  /\ constructions = 0
  /\ \E i \in 1..Len(heap) : assigned[i] # NotAssigned
  /\ \E t \in Threads : pc[t] = "L103"

(***************************************************************************)
(* C16: the lock is held by at most one thread at a time, exactly by the   *)
(* thread that is between lines 102 and 105, and it is released on every   *)
(* way out of get_current(), the exception of a failed construction        *)
(* included: when no call is in progress the lock is free.                 *)
(***************************************************************************)
C16_LockReleased ==
  /\ \A t \in Threads : _context_lock = t <=> pc[t] \in {"L102", "L103", "L105"}
  /\ Cardinality({t \in Threads : pc[t] \in {"L102", "L103", "L105"}}) <= 1
  /\ (\A t \in Threads : pc[t] = "idle") => _context_lock = Free

\* A construction has raised, no call is in progress and the lock is free.
C16_Witness ==
  /\ raised = "MemoryError"
  /\ _default_context = None
  /\ \A t \in Threads : pc[t] = "idle"
  /\ _context_lock = Free

(***************************************************************************)
(* C17: a DAGContext constructed directly is a separate instance that is   *)
(* never installed as the singleton: the constructor call leaves the       *)
(* reference as it is, and an assignment to a field of that instance       *)
(* changes neither the reference nor a field of the singleton.             *)
(***************************************************************************)
C17_DirectInstanceSeparate ==
  [][/\ (Len(heap') = Len(heap) + 1 /\ constructions' = constructions)
          => /\ _default_context' = _default_context
             /\ _default_context' # Len(heap')
     /\ \A i \in 1..Len(heap) :
          (i # _default_context /\ heap'[i] # heap[i])
            => /\ _default_context' = _default_context
               /\ _default_context # None
                    => heap'[_default_context] = heap[_default_context]]_vars

\* The singleton exists with the default buffer_size_bytes while a thread
\* holds another instance whose buffer_size_bytes it has set to 500.
C17_Witness ==
  /\ _default_context # None
  /\ returned # {}
  /\ ReadField(_default_context, "buffer_size_bytes") = 1000000
  /\ \E t \in Threads :
       /\ ref[t] # None /\ ref[t] # _default_context
       /\ assigned[ref[t]]["buffer_size_bytes"] = {500}
       /\ ReadField(ref[t], "buffer_size_bytes") = 500

(***************************************************************************)
(* C18: an assignment to a field changes that field of that instance and   *)
(* nothing else: the other fields and the other instances keep their       *)
(* values, the resolved defaults stay as they are, and an instance         *)
(* constructed later starts from those defaults.                           *)
(***************************************************************************)
C18_OnlyThatField ==
  [][/\ \A i \in 1..Len(heap) :
          heap'[i] # heap[i]
            => /\ Cardinality({f \in Fields : heap'[i][f] # heap[i][f]}) = 1
               /\ \A j \in 1..Len(heap) : j # i => heap'[j] = heap[j]
               /\ DEFAULTS' = DEFAULTS
     /\ \A i \in 1..Len(heap') :
          assigned'[i] = NotAssigned
            => heap'[i] = [f \in Fields |-> DEFAULTS'[f]]]_vars

\* buffer_size_bytes of the singleton was set to 500; its other fields are
\* the defaults, and an instance constructed after the singleton has the
\* default buffer_size_bytes.
C18_Witness ==
  /\ _default_context # None
  /\ assigned[_default_context]["buffer_size_bytes"] = {500}
  /\ \A f \in Fields \ {"buffer_size_bytes"} :
       ReadField(_default_context, f) = DEFAULTS[f]
  /\ \E i \in 1..Len(heap) :
       /\ i > _default_context
       /\ ReadField(i, "buffer_size_bytes") = 1000000

====
